---- MODULE Spec2Model ----
(***************************************************************************)
(* SoraWorker (src/worker.js): the Cloudflare worker's /api/generate       *)
(* handler, and the page script's actions.generate, which reads the        *)
(* streamed response line by line, shows progress and stores the result.   *)
(*                                                                         *)
(* Text is a sequence of characters; a character is a short string.  The   *)
(* runs of characters that the code only ever tests as a whole ("data:",   *)
(* "[DONE]", "src=", "http") are one character each, LF and CR are the     *)
(* line feed and the carriage return, "{" "R" "C" "}" spell a JSON payload *)
(* {choices:[{delta:{reasoning_content:..,content:..}}]}, and "e'" is a    *)
(* character whose UTF-8 encoding takes two bytes.                         *)
(*                                                                         *)
(* The page script is the streaming variant (lines 254-450).  Its regular  *)
(* expressions and its '\\n' are read as the script that was meant: the    *)
(* patterns /(\d+)%/ and /src=['"]([^'"\\]+)['"]/ as they stand in the     *)
(* source text, and a split on the line feed.  The page's elements and the *)
(* lucide library are there, so render.loading, render.files and           *)
(* render.gallery return; db.add may reject.  The page has one generate    *)
(* call in flight at a time (btn-generate is disabled while it runs) in    *)
(* Spec and ReadSpec; OverlapSpec is the page with two calls of            *)
(* actions.generate suspended at reader.read() at the same time.           *)
(***************************************************************************)
EXTENDS Integers, Sequences, FiniteSets, TLC

\* ------------------------------------------------------------------ bounds
MaxFrames == 3
MaxChunk == 3
MaxSessions == 1
MaxFiles == 2
MaxFragments == 2
MaxUploads == 2
MaxCalls == 2

\* -------------------------------------------------------------- characters
LF == "LF"
CR == "CR"
SP == " "
FFFD == "U+FFFD"
Wide == "e'"
LeadByte == "0xC3"
TrailByte == "0xA9"

Digits == {"0", "1", "2", "3", "4", "5", "6", "7", "8", "9"}
Quotes == {"'", "dq"}
Backslash == "bs"
Whitespace == {SP, CR, LF}

\* EscLF is the JSON escape of a line feed inside a string; the two fences
\* are the opening fence of a fenced block with its language (three grave
\* accents and html) and the closing fence (three grave accents)
EscLF == "esc-n"
FenceOpen == "fence-html"
FenceClose == "fence"

\* characters that can stand inside a JSON string of the payload
StrChar == Digits \cup Quotes \cup {SP, "%", "x", "<", ">", "src=", "http", "a", "b", Backslash, Wide, FFFD,
                                    EscLF, FenceOpen, FenceClose}

DigitVal(c) == CASE c = "0" -> 0 [] c = "1" -> 1 [] c = "2" -> 2 [] c = "3" -> 3
                 [] c = "4" -> 4 [] c = "5" -> 5 [] c = "6" -> 6 [] c = "7" -> 7
                 [] c = "8" -> 8 [] c = "9" -> 9

RECURSIVE NumVal(_)
\* the number a string of decimal digits denotes
NumVal(s) == IF s = <<>> THEN 0 ELSE 10 * NumVal(SubSeq(s, 1, Len(s) - 1)) + DigitVal(s[Len(s)])

\* --------------------------------------------------------- UTF-8, decoding
\* TextEncoder: every character is one byte, except Wide (two bytes)
EncodeChar(c) == IF c = Wide THEN <<LeadByte, TrailByte>> ELSE <<c>>

RECURSIVE EncodeText(_)
EncodeText(s) == IF s = <<>> THEN <<>> ELSE EncodeChar(Head(s)) \o EncodeText(Tail(s))

RECURSIVE DecodeBytes(_, _)
\* TextDecoder's state machine: pend holds the bytes of an unfinished
\* character; a byte that cannot continue or start a character gives U+FFFD
DecodeBytes(pend, bytes) ==
    IF bytes = <<>> THEN [out |-> <<>>, pend |-> pend]
    ELSE LET b == Head(bytes) IN
         IF pend = <<>>
         THEN IF b = LeadByte THEN DecodeBytes(<<b>>, Tail(bytes))
              ELSE LET r == DecodeBytes(<<>>, Tail(bytes)) IN
                   [out |-> <<IF b = TrailByte THEN FFFD ELSE b>> \o r.out, pend |-> r.pend]
         ELSE IF b = TrailByte
              THEN LET r == DecodeBytes(<<>>, Tail(bytes)) IN
                   [out |-> <<Wide>> \o r.out, pend |-> r.pend]
              ELSE LET r == DecodeBytes(<<>>, bytes) IN
                   [out |-> <<FFFD>> \o r.out, pend |-> r.pend]

\* decoder.decode(value): every chunk is decoded on its own and an unfinished
\* character at its end is finalized at once
DecodeNoStream(pend, bytes, stream) ==
    LET r == DecodeBytes(<<>>, bytes) IN
    [out |-> r.out \o (IF r.pend # <<>> THEN <<FFFD>> ELSE <<>>), pend |-> <<>>]

\* decoder.decode(value, { stream: !done })
Decode(pend, bytes, stream) ==
    LET r == DecodeBytes(pend, bytes) IN
    IF stream THEN r
    ELSE [out |-> r.out \o (IF r.pend # <<>> THEN <<FFFD>> ELSE <<>>), pend |-> <<>>]

\* ------------------------------------------------------- string operations
RECURSIVE TrimStart(_)
TrimStart(s) == IF s # <<>> /\ Head(s) \in Whitespace THEN TrimStart(Tail(s)) ELSE s

RECURSIVE TrimEnd(_)
TrimEnd(s) == IF s # <<>> /\ s[Len(s)] \in Whitespace THEN TrimEnd(SubSeq(s, 1, Len(s) - 1)) ELSE s

\* String.prototype.trim
Trim(s) == TrimEnd(TrimStart(s))

RECURSIVE Split(_)
\* buffer.split('\n'): the pieces between line feeds, at least one piece
Split(s) ==
    IF \A i \in 1..Len(s) : s[i] # LF THEN <<s>>
    ELSE LET i == CHOOSE k \in 1..Len(s) : s[k] = LF /\ \A j \in 1..(k - 1) : s[j] # LF IN
         <<SubSeq(s, 1, i - 1)>> \o Split(SubSeq(s, i + 1, Len(s)))

\* the end of the longest run of characters of set S that starts at i (i - 1 when empty)
RunEnd(s, i, S) ==
    IF \A k \in i..Len(s) : s[k] \in S THEN Len(s)
    ELSE (CHOOSE k \in i..Len(s) : s[k] \notin S /\ \A j \in i..(k - 1) : s[j] \in S) - 1

\* text.match(/(\d+)%/): group 1 of the leftmost match, <<>> when none
ProgMatch(s) ==
    LET Hit(i) == s[i] \in Digits /\ RunEnd(s, i, Digits) < Len(s) /\ s[RunEnd(s, i, Digits) + 1] = "%" IN
    IF \E i \in 1..Len(s) : Hit(i)
    THEN LET i == CHOOSE k \in 1..Len(s) : Hit(k) /\ \A j \in 1..(k - 1) : ~Hit(j) IN
         SubSeq(s, i, RunEnd(s, i, Digits))
    ELSE <<>>

\* the characters [^'"\\] of the src pattern
SrcChar == (StrChar \cup {"{", "}", "R", "C", "data:", "[DONE]", CR, LF}) \ (Quotes \cup {Backslash})

\* /src=['"]([^'"\\]+)['"]/ matches at i
SrcHit(s, i) ==
    /\ s[i] = "src="
    /\ i + 2 <= Len(s)
    /\ s[i + 1] \in Quotes
    /\ s[i + 2] \in SrcChar
    /\ RunEnd(s, i + 2, SrcChar) < Len(s)
    /\ s[RunEnd(s, i + 2, SrcChar) + 1] \in Quotes

\* where the leftmost match starts
SrcStart(s) == CHOOSE k \in 1..Len(s) : SrcHit(s, k) /\ \A j \in 1..(k - 1) : ~SrcHit(s, j)

\* text.match(/src=['"]([^'"\\]+)['"]/): group 1 of the leftmost match, <<>> when none
SrcMatch(s) ==
    IF \E i \in 1..Len(s) : SrcHit(s, i)
    THEN SubSeq(s, SrcStart(s) + 2, RunEnd(s, SrcStart(s) + 2, SrcChar))
    ELSE <<>>

\* text.startsWith('http')
StartsWithHttp(s) == s # <<>> /\ Head(s) = "http"

\* ------------------------------------------------------------ JSON payload
IsStr(s) == \A i \in 1..Len(s) : s[i] \in StrChar

\* the text a JSON string denotes: its escapes replaced
Unescape(s) == [i \in 1..Len(s) |-> IF s[i] = EscLF THEN LF ELSE s[i]]

NoDelta == [ok |-> TRUE, rc |-> <<>>, content |-> <<>>]
ParseError == [ok |-> FALSE, rc |-> <<>>, content |-> <<>>]

\* JSON.parse(jsonStr) and data.choices?.[0]?.delta || {}: the two text
\* fields of the delta (<<>> when absent), or ok = FALSE when parsing throws
ParseDelta(p) ==
    IF Len(p) < 2 \/ p[1] # "{" \/ p[Len(p)] # "}" THEN ParseError
    ELSE LET in == SubSeq(p, 2, Len(p) - 1) IN
         IF in = <<>> THEN NoDelta
         ELSE IF Head(in) = "R"
              THEN LET rest == Tail(in) IN
                   IF \E i \in 1..Len(rest) : rest[i] = "C"
                   THEN LET i == CHOOSE k \in 1..Len(rest) : rest[k] = "C" /\ \A j \in 1..(k - 1) : rest[j] # "C"
                            rc == SubSeq(rest, 1, i - 1)
                            ct == SubSeq(rest, i + 1, Len(rest)) IN
                        IF IsStr(rc) /\ IsStr(ct) THEN [ok |-> TRUE, rc |-> Unescape(rc), content |-> Unescape(ct)] ELSE ParseError
                   ELSE IF IsStr(rest) THEN [ok |-> TRUE, rc |-> Unescape(rest), content |-> <<>>] ELSE ParseError
              ELSE IF Head(in) = "C" /\ IsStr(Tail(in))
                   THEN [ok |-> TRUE, rc |-> <<>>, content |-> Unescape(Tail(in))]
                   ELSE ParseError

\* ------------------------------------------------------------ the display
Ready == [disabled |-> FALSE, text |-> <<"generate">>]

\* render.loading(progress): progress is <<>> when the argument is left out
RenderLoading(isLoading, progress, btn) ==
    IF isLoading
    THEN [disabled |-> TRUE, text |-> IF progress # <<>> THEN progress \o <<"%">> ELSE <<"initializing">>]
    ELSE Ready

Progress(p) == [type |-> "progress", val |-> p]
Result(u) == [type |-> "result", val |-> u]
Error(m) == [type |-> "error", val |-> m]

\* ------------------------------------------------------------- processLine
\* the content branch: the URL a content fragment leaves in finalUrl
ContentUrl(finalUrl, content) ==
    IF content = <<>> THEN finalUrl
    ELSE IF SrcMatch(content) # <<>> THEN SrcMatch(content)
    ELSE IF StartsWithHttp(content) THEN content
    ELSE finalUrl

\* a progress branch that puts the newest update in front of the earlier ones
ShowProgressFirst(st, isLoading, rc) ==
    IF rc # <<>> /\ ProgMatch(rc) # <<>>
    THEN [st EXCEPT !.btn = RenderLoading(isLoading, ProgMatch(rc), st.btn),
                    !.events = IF isLoading THEN <<Progress(ProgMatch(rc))>> \o st.events ELSE st.events]
    ELSE st

\* the progress branch: what render.loading(progMatch[1]) leaves on screen
ShowProgress(st, isLoading, rc) ==
    IF rc # <<>> /\ ProgMatch(rc) # <<>>
    THEN [st EXCEPT !.btn = RenderLoading(isLoading, ProgMatch(rc), st.btn),
                    !.events = IF isLoading THEN Append(st.events, Progress(ProgMatch(rc))) ELSE st.events]
    ELSE st

\* processLine without its try/catch: a payload that does not parse takes the
\* URL found so far with it
ProcessLineParseFatal(st, isLoading, line) ==
    LET trimmed == Trim(line) IN
    IF trimmed = <<>> \/ Head(trimmed) # "data:" THEN st
    ELSE LET jsonStr == Trim(Tail(trimmed)) IN
         IF jsonStr = <<"[DONE]">> THEN st
         ELSE LET d == ParseDelta(jsonStr) IN
              IF ~d.ok THEN [st EXCEPT !.finalUrl = <<>>]
              ELSE LET st1 == ShowProgress(st, isLoading, d.rc) IN
                   [st1 EXCEPT !.finalUrl = ContentUrl(st.finalUrl, d.content)]

\* a processLine that forgets the URL found so far when a frame's content has none
ProcessLineForgets(st, isLoading, line) ==
    LET trimmed == Trim(line) IN
    IF trimmed = <<>> \/ Head(trimmed) # "data:" THEN st
    ELSE LET jsonStr == Trim(Tail(trimmed)) IN
         IF jsonStr = <<"[DONE]">> THEN st
         ELSE LET d == ParseDelta(jsonStr) IN
              IF ~d.ok THEN st
              ELSE LET st1 == ShowProgress(st, isLoading, d.rc) IN
                   [st1 EXCEPT !.finalUrl = ContentUrl(<<>>, d.content)]

\* processLine(line) on st = [finalUrl, btn, events]
ProcessLine(st, isLoading, line) ==
    LET trimmed == Trim(line) IN
    IF trimmed = <<>> \/ Head(trimmed) # "data:" THEN st
    ELSE LET jsonStr == Trim(Tail(trimmed)) IN
         IF jsonStr = <<"[DONE]">> THEN st
         ELSE LET d == ParseDelta(jsonStr) IN
              IF ~d.ok THEN st
              ELSE LET st1 == ShowProgress(st, isLoading, d.rc) IN
                   [st1 EXCEPT !.finalUrl = ContentUrl(st.finalUrl, d.content)]

RECURSIVE ProcessLines(_, _, _)
\* for (const line of lines) processLine(line)
ProcessLines(st, isLoading, lines) ==
    IF lines = <<>> THEN st
    ELSE ProcessLines(ProcessLine(st, isLoading, Head(lines)), isLoading, Tail(lines))

\* a read loop that leaves the rest of the buffer alone when the stream ends
ReadStepNoTail(rd, isLoading, value, done) ==
    LET dec == Decode(rd.pend, value, ~done)
        lines == Split(rd.buffer \o dec.out)
        rest == lines[Len(lines)]
        st1 == ProcessLines(rd.st, isLoading, SubSeq(lines, 1, Len(lines) - 1)) IN
    [st |-> st1, buffer |-> rest, pend |-> dec.pend, calls |-> SubSeq(lines, 1, Len(lines) - 1)]

\* one turn of the read loop on rd = [st, buffer, pend]: decode the chunk,
\* split the buffer, keep the last piece, process the others and, when done,
\* the non-empty rest; calls are the lines given to processLine in this turn
ReadStep(rd, isLoading, value, done) ==
    LET dec == Decode(rd.pend, value, ~done)
        lines == Split(rd.buffer \o dec.out)
        rest == lines[Len(lines)]
        st1 == ProcessLines(rd.st, isLoading, SubSeq(lines, 1, Len(lines) - 1))
        st2 == IF done /\ rest # <<>> THEN ProcessLine(st1, isLoading, rest) ELSE st1 IN
    [st |-> st2, buffer |-> rest, pend |-> dec.pend,
     calls |-> SubSeq(lines, 1, Len(lines) - 1) \o (IF done /\ rest # <<>> THEN <<rest>> ELSE <<>>)]

\* encodeURIComponent on one character
EscapeChar(c) ==
    CASE c = SP -> "%20" [] c = "dq" -> "%22" [] c = "%" -> "%25" [] c = "<" -> "%3C"
      [] c = ">" -> "%3E" [] c = "src=" -> "src%3D" [] c = Backslash -> "%5C"
      [] c = Wide -> "%C3%A9" [] c = FFFD -> "%EF%BF%BD" [] OTHER -> c

\* `/api/proxy?url=${encodeURIComponent(finalUrl)}`
ProxyUrl(u) == <<"/api/proxy?url=">> \o [i \in 1..Len(u) |-> EscapeChar(u[i])]

\* ------------------------------------------------------ the upstream's body
LineProgress9 == <<"data:", "{", "R", "x", "9", "%", "}">>
LineProgress42 == <<"data:", SP, "{", "R", "4", "2", "%", "}">>
LineDone == <<"data:", SP, "[DONE]", CR>>
LineMalformed == <<"data:", "{", "C">>
LineTag == <<"data:", "{", "C", "src=", "'", "http", "'", "}">>
LineBare == <<"data:", "{", "C", "http", Wide, "}">>
LineBlank == <<>>

Lines == {LineProgress9, LineProgress42, LineDone, LineMalformed, LineTag, LineBare, LineBlank}

RECURSIVE Join(_)
\* the lines, a line feed after each
Join(ls) == IF ls = <<>> THEN <<>> ELSE EncodeText(Head(ls)) \o <<LF>> \o Join(Tail(ls))

LineSeqs == UNION {[1..n -> Lines] : n \in 0..MaxFrames}

\* the bodies the upstream may send: up to MaxFrames lines, the last one
\* with or without its line feed
Streams == {Join(ls) : ls \in LineSeqs}
             \cup {SubSeq(Join(ls), 1, Len(Join(ls)) - 1) : ls \in LineSeqs \ {<<>>}}

UpstreamStatuses == {200, 401, 500}
UpstreamBody == "upstream says no"

\* --------------------------------------------------------------- the state
VARIABLES
    env,            \* the worker's env: [key: SORA_API_KEY set, code: ACCESS_CODE, "" unset]
    req,            \* the request to /api/generate in flight, <<>> or one record
    wpc,            \* handleGenerateRequest: "idle", or "upstream" while it awaits fetch(apiUrl)
    up,             \* the payloads sent to the upstream for the request in flight
    fetched,        \* the targets handleProxyRequest fetched for the request in flight
    apiStatus,      \* apiResponse.status (response.status in handleProxyRequest) for that
                    \* request, 0 before the fetch has an answer
    res,            \* the response on its way to the client, <<>> or one record
    localCode,      \* localStorage sora_code, "" when absent
    pwdModal,       \* pwd-modal is visible
    alerted,        \* alert() was shown
    loading,        \* state.loading
    files,          \* state.files
    promptIn,       \* the value of prompt-in
    btn,            \* what btn-generate shows
    errShown,       \* err-msg is visible
    errText,        \* err-text
    pc,             \* actions.generate: "idle", "fetch", "read", "store", "gallery"
    prompt,         \* generate's prompt
    sent,           \* the body of the response, as the upstream sent it
    body,           \* the bytes of it not yet read
    reader,         \* res.body.getReader() was called
    done,           \* the done of the last reader.read()
    finalUrl,       \* the read loop's finalUrl
    buffer,         \* the read loop's buffer
    pend,           \* the bytes the decoder holds back
    handed,         \* the lines given to processLine, in order
    events,         \* what the session showed its user: progress, then result or error
    db,             \* the records of the generations store
    nGen,           \* generate calls that sent a request; the number of the current one
    other,          \* the locals of a second call of actions.generate that is suspended at an await
    upload,         \* handleFileUpload: its position, the files still to convert, whether the
                    \* push it is suspended in is bound to the array state.files holds now
    picked,         \* the file selections made so far and how many of them came before the
                    \* last setMode or clearFiles
    pendingRequests,    \* the non-streaming page: pendingRequests, the ids from first to last
    calls,              \* its doGenerate calls, by tempId
    savedCode,          \* its localStorage sora_access_code, "" when absent
    showPasswordModal,  \* its showPasswordModal
    pageError,          \* its error, <<>> for null
    history             \* its history

\* what the actions of the streaming page's generate and of the worker's
\* generate route leave alone: the file picker and the non-streaming page
aside == <<upload, picked, pendingRequests, calls, savedCode, showPasswordModal, pageError, history>>

vars == <<env, req, wpc, up, fetched, apiStatus, res, localCode, pwdModal, alerted, loading, files,
          promptIn, btn, errShown, errText, pc, prompt, sent, body, reader, done, finalUrl, buffer, pend, handed, events, db, nGen, other, aside>>

workerVars == <<env, wpc>>
pageVars == <<localCode, pwdModal, alerted, loading, files, promptIn, btn, errShown, errText,
              pc, prompt, sent, body, reader, done, finalUrl, buffer, pend, handed, events, db, nGen, other, aside>>

Codes == {"good", "bad"}

\* the locals of a call of actions.generate that has not been made
NoCall == [pc |-> "idle", prompt |-> "", sent |-> <<>>, body |-> <<>>, reader |-> FALSE, done |-> FALSE,
           finalUrl |-> <<>>, buffer |-> <<>>, pend |-> <<>>, handed |-> <<>>, events |-> <<>>, nGen |-> 0]

\* no file selected and no upload under way; the non-streaming page as it is
\* mounted (useState([]), useState(false), useState(null))
AsideInit ==
    /\ upload = [pc |-> "idle", rest |-> <<>>, bound |-> FALSE]
    /\ picked = [n |-> 0, stale |-> 0]
    /\ pendingRequests = <<>>
    /\ calls = <<>>
    /\ savedCode = ""
    /\ showPasswordModal = FALSE
    /\ pageError = <<>>
    /\ history = <<>>

Init ==
    /\ env \in [key : BOOLEAN, code : {"", "good"}]
    /\ req = <<>> /\ wpc = "idle" /\ up = <<>> /\ fetched = <<>> /\ apiStatus = 0 /\ res = <<>>
    /\ localCode \in {""} \cup Codes
    /\ pwdModal = FALSE /\ alerted = FALSE /\ loading = FALSE
    /\ files = <<>> /\ promptIn \in {"", "a prompt"}
    /\ btn = Ready /\ errShown = FALSE /\ errText = <<>>
    /\ pc = "idle" /\ prompt = "" /\ sent = <<>> /\ body = <<>> /\ reader = FALSE /\ done = FALSE
    /\ finalUrl = <<>> /\ buffer = <<>> /\ pend = <<>> /\ handed = <<>>
    /\ events = <<>> /\ db = <<>> /\ nGen = 0
    /\ other = NoCall
    /\ AsideInit

\* ------------------------------------------------- handleGenerateRequest
\* the files of a request body: { mimeType, data }, kind being what
\* mimeType.startsWith('image/') and startsWith('video/') tell of it
FileImage == [kind |-> "image", mimeType |-> "image/png", data |-> "iVBORw0K"]
FileVideo == [kind |-> "video", mimeType |-> "video/mp4", data |-> "AAAAIGZ0"]
FileOther == [kind |-> "other", mimeType |-> "audio/mpeg", data |-> "SUQzBAAA"]
FileSeqs == UNION {[1..n -> {FileImage, FileVideo, FileOther}] : n \in 0..MaxFiles}

RECURSIVE MediaPartsReversed(_)
\* parts pushed to the front of content instead of its end
MediaPartsReversed(fs) ==
    IF fs = <<>> THEN <<>>
    ELSE LET f == Head(fs) IN
         MediaPartsReversed(Tail(fs)) \o
         (IF f.kind \in {"image", "video"}
          THEN <<[type |-> IF f.kind = "image" THEN "image_url" ELSE "video_url",
                  val |-> <<"data:", f.mimeType, ";base64,", f.data>>]>>
          ELSE <<>>)

RECURSIVE MediaParts(_)
\* files.forEach: an image_url or video_url part for every image/ or video/ file
MediaParts(fs) ==
    IF fs = <<>> THEN <<>>
    ELSE LET f == Head(fs) IN
         (IF f.kind \in {"image", "video"}
          THEN <<[type |-> IF f.kind = "image" THEN "image_url" ELSE "video_url",
                  val |-> <<"data:", f.mimeType, ";base64,", f.data>>]>>
          ELSE <<>>) \o MediaParts(Tail(fs))

\* the payload: content is the prompt alone when the text part is the only one
Payload(r) ==
    LET content == MediaParts(r.files)
                     \o (IF r.prompt # "" THEN <<[type |-> "text", val |-> <<r.prompt>>]>> ELSE <<>>) IN
    [model |-> r.model,
     plain |-> Len(content) = 1 /\ content[1].type = "text",
     content |-> content,
     stream |-> TRUE]

\* an access check that only asks for some header
HeaderAbsentOnly(code, header) == code = "" \/ header # ""

\* the access check (lines 46-51): no ACCESS_CODE, or the header equals it
Authorized(code, header) == code = "" \/ (header # "" /\ header = code)

Response(status, error, stream) == [status |-> status, error |-> error, body |-> stream]

\* the Response goes back to whoever sent the request (of another client's
\* response only the status and the error are kept)
Reply(r) ==
    /\ req' = <<>>
    /\ res' = <<[to |-> req[1].from, method |-> req[1].method, path |-> req[1].path, url |-> req[1].url,
                 header |-> req[1].header, status |-> r.status, error |-> r.error,
                 body |-> IF req[1].from = "page" THEN r.body ELSE <<>>,
                 acao |-> IF "acao" \in DOMAIN r THEN r.acao ELSE ""]>>

\* the routes of the fetch handler (lines 13-34)
IsGenerate(r) == r.method = "POST" /\ r.path = "/api/generate"
IsProxy(r) == r.method = "GET" /\ r.path = "/api/proxy"

\* handleGenerateRequest up to its fetch of the upstream (lines 39-91)
HandleGenerateRequest ==
    /\ req # <<>> /\ wpc = "idle" /\ IsGenerate(req[1])
    /\ IF ~env.key
       THEN Reply(Response(500, <<"SORA_API_KEY missing">>, <<>>)) /\ UNCHANGED <<wpc, up, fetched>>
       ELSE IF ~Authorized(env.code, req[1].header)
            THEN Reply(Response(401, <<"wrong access code">>, <<>>)) /\ UNCHANGED <<wpc, up, fetched>>
            ELSE /\ wpc' = "upstream"
                 /\ up' = Append(up, Payload(req[1]))
                 /\ UNCHANGED fetched
                 /\ UNCHANGED <<req, res>>
    /\ UNCHANGED <<env, apiStatus>>
    /\ UNCHANGED pageVars

\* the upstream answers: a status other than 2xx is passed on with its text,
\* a 2xx body is passed through (lines 93-105); the body is followed only
\* for the page's requests
UpstreamRespondsWith(bodies) ==
    /\ wpc = "upstream"
    /\ \E status \in UpstreamStatuses :
          /\ apiStatus' = status
          /\ IF status \notin 200..299
             THEN Reply(Response(status, <<"Upstream Error: ", UpstreamBody>>, <<>>))
             ELSE \E s \in (IF req[1].from = "page" THEN bodies ELSE {<<>>}) :
                     Reply(Response(200, <<>>, s))
    /\ wpc' = "idle"
    /\ UNCHANGED <<env, up, fetched>>
    /\ UNCHANGED pageVars

UpstreamResponds == UpstreamRespondsWith(Streams)

\* a handler that sends the payload once more when fetch(apiUrl) throws
UpstreamFailsRetries ==
    /\ wpc = "upstream"
    /\ IF Len(up) < 2
       THEN up' = Append(up, up[1]) /\ UNCHANGED <<req, res, wpc, fetched>>
       ELSE Reply(Response(500, <<"fetch failed">>, <<>>)) /\ wpc' = "idle" /\ UNCHANGED <<up, fetched>>
    /\ UNCHANGED <<env, apiStatus>>
    /\ UNCHANGED pageVars

\* fetch(apiUrl) throws: the catch answers 500 with the error's message (lines 107-109)
UpstreamFails ==
    /\ wpc = "upstream"
    /\ Reply(Response(500, <<"fetch failed">>, <<>>))
    /\ wpc' = "idle"
    /\ UNCHANGED <<env, up, fetched, apiStatus>>
    /\ UNCHANGED pageVars

\* url.searchParams.get('url'): null without the parameter, the empty text
\* for ?url=, else the target
Null == "null"
Target == "https://cdn.example/v.mp4"

\* the statuses the target of a proxied fetch may answer with

\* a proxy route that fetches whenever the url parameter is there, empty or not
HandleProxyRequestNullOnly ==
    /\ req # <<>> /\ wpc = "idle" /\ IsProxy(req[1])
    /\ IF req[1].url = Null
       THEN /\ Reply(Response(400, <<"Missing URL parameter">>, <<>>))
            /\ UNCHANGED <<wpc, fetched>>
       ELSE /\ wpc' = "proxy"
            /\ fetched' = Append(fetched, req[1].url)
            /\ UNCHANGED <<req, res>>
    /\ UNCHANGED <<env, up, apiStatus>>
    /\ UNCHANGED pageVars

\* handleProxyRequest up to its fetch (lines 115-128): no header is read
HandleProxyRequest ==
    /\ req # <<>> /\ wpc = "idle" /\ IsProxy(req[1])
    /\ IF req[1].url \in {Null, ""}
       THEN /\ Reply(Response(400, <<"Missing URL parameter">>, <<>>))
            /\ UNCHANGED <<wpc, fetched>>
       ELSE /\ wpc' = "proxy"
            /\ fetched' = Append(fetched, req[1].url)
            /\ UNCHANGED <<req, res>>
    /\ UNCHANGED <<env, up, apiStatus>>
    /\ UNCHANGED pageVars

\* the target answers: its status is relayed, Access-Control-Allow-Origin is
\* set to * (lines 130-138)
ProxyResponds ==
    /\ wpc = "proxy"
    /\ \E status \in {200, 206, 404, 500} :
          /\ apiStatus' = status
          /\ Reply([status |-> status, error |-> <<>>, body |-> <<>>, acao |-> "*"])
    /\ wpc' = "idle"
    /\ UNCHANGED <<env, up, fetched>>
    /\ UNCHANGED pageVars

\* fetch(targetUrl) throws: 500 with Proxy Error and the message (lines 139-141)
ProxyFails ==
    /\ wpc = "proxy"
    /\ Reply(Response(500, <<"Proxy Error: ", "fetch failed">>, <<>>))
    /\ wpc' = "idle"
    /\ UNCHANGED <<env, up, fetched, apiStatus>>
    /\ UNCHANGED pageVars

\* every other request is answered with the page (lines 27-32)
ServePage ==
    /\ req # <<>> /\ wpc = "idle" /\ ~IsGenerate(req[1]) /\ ~IsProxy(req[1])
    /\ Reply(Response(200, <<>>, <<>>))
    /\ UNCHANGED <<env, wpc, up, fetched, apiStatus>>
    /\ UNCHANGED pageVars

\* the requests of another HTTP client: to /api/generate with any header or
\* none, with or without a prompt and files; to /api/proxy with any header or
\* none and any url parameter; to some other method and path
ExternalRequests ==
    {[from |-> "other", method |-> "POST", path |-> "/api/generate", url |-> Null, header |-> h,
      model |-> "sora-image", prompt |-> p, files |-> fs] :
        h \in {""} \cup Codes, p \in {"", "a prompt"}, fs \in FileSeqs}
    \cup
    {[from |-> "other", method |-> "GET", path |-> "/api/proxy", url |-> u, header |-> h,
      model |-> "", prompt |-> "", files |-> <<>>] :
        h \in {""} \cup Codes, u \in {Null, "", Target}}
    \cup
    {[from |-> "other", method |-> mq[1], path |-> mq[2], url |-> Null, header |-> "",
      model |-> "", prompt |-> "", files |-> <<>>] :
        mq \in ({"GET", "POST"} \X {"/", "/api/generate", "/api/proxy"})
                         \ {<<"POST", "/api/generate">>, <<"GET", "/api/proxy">>}}

\* a request from another HTTP client; the worker keeps nothing between
\* requests, so these come before the page's own
ExternalRequest ==
    /\ req = <<>> /\ res = <<>> /\ pc = "idle" /\ nGen = 0
    /\ \E r \in ExternalRequests : req' = <<r>>
    /\ up' = <<>>
    /\ fetched' = <<>>
    /\ apiStatus' = 0
    /\ UNCHANGED <<env, wpc, res>>
    /\ UNCHANGED pageVars

\* the other client has its response
ExternalReceives ==
    /\ res # <<>> /\ res[1].to = "other"
    /\ res' = <<>>
    /\ UNCHANGED <<env, wpc, up, fetched, apiStatus, req>>
    /\ UNCHANGED pageVars

\* -------------------------------------------------------- actions.generate
ModelId == "sora-video-landscape-10s"

\* a catch without the finally: the message is shown, the button stays as it was
FailKeepsLoading(msg) ==
    /\ errShown' = TRUE
    /\ errText' = msg
    /\ events' = Append(events, Error(msg))
    /\ UNCHANGED <<loading, btn>>
    /\ pc' = "idle"

\* catch (e) and finally: the message is shown and the button is reset (lines 419-425)
Fail(msg) ==
    /\ errShown' = TRUE
    /\ errText' = msg
    /\ events' = Append(events, Error(msg))
    /\ loading' = FALSE
    /\ btn' = RenderLoading(FALSE, <<>>, btn)
    /\ pc' = "idle"

\* generate up to its fetch (lines 331-350), called with sora_code = code
\* while pwd-modal's visibility is modal
GenerateCall(code, modal) ==
    IF promptIn = "" /\ files = <<>>
    THEN /\ alerted' = TRUE
         /\ pwdModal' = modal
         /\ UNCHANGED <<loading, btn, errShown, pc, prompt, events, nGen, req, up, fetched,
                        sent, body, reader, done, finalUrl, buffer, pend, handed, other, aside, apiStatus>>
    ELSE IF code = ""
         THEN /\ pwdModal' = TRUE
              /\ UNCHANGED <<alerted, loading, btn, errShown, pc, prompt, events, nGen, req, up, fetched,
                             sent, body, reader, done, finalUrl, buffer, pend, handed, other, aside, apiStatus>>
         ELSE /\ loading' = TRUE
              /\ btn' = RenderLoading(TRUE, <<"0">>, btn)
              /\ errShown' = FALSE
              /\ prompt' = promptIn
              /\ req' = <<[from |-> "page", method |-> "POST", path |-> "/api/generate", url |-> Null,
                           header |-> code, model |-> ModelId,
                           prompt |-> promptIn, files |-> files]>>
              /\ up' = <<>>
              /\ fetched' = <<>>
              /\ pc' = "fetch"
              /\ events' = <<>>
              /\ apiStatus' = 0
              /\ sent' = <<>> /\ body' = <<>> /\ reader' = FALSE /\ done' = FALSE
              /\ finalUrl' = <<>> /\ buffer' = <<>> /\ pend' = <<>> /\ handed' = <<>>
              /\ UNCHANGED <<other, aside>>
              /\ nGen' = nGen + 1
              /\ pwdModal' = modal
              /\ UNCHANGED alerted

\* a click on btn-generate, while fewer than n calls have sent a request
GenerateWithin(n) ==
    /\ pc = "idle" /\ ~btn.disabled /\ req = <<>> /\ res = <<>> /\ nGen < n
    /\ GenerateCall(localCode, pwdModal)
    /\ UNCHANGED <<localCode, errText, files, promptIn, db, res>>
    /\ UNCHANGED workerVars

Generate == GenerateWithin(MaxSessions)

\* submitPwd: a non-empty pwd-input is stored, the modal hidden, generate
\* called (line 329), while fewer than n calls have sent a request
SubmitPwdWithin(n) ==
    /\ pc = "idle" /\ pwdModal /\ req = <<>> /\ res = <<>> /\ nGen < n
    /\ \E v \in Codes :
          /\ localCode' = v
          /\ GenerateCall(v, FALSE)
    /\ UNCHANGED <<errText, files, promptIn, db, res>>
    /\ UNCHANGED workerVars

SubmitPwd == SubmitPwdWithin(MaxSessions)

\* the page's fetch rejects before the worker saw the request
FetchFails ==
    /\ pc = "fetch" /\ req # <<>> /\ wpc = "idle"
    /\ req' = <<>>
    /\ Fail(<<"Failed to fetch">>)
    /\ UNCHANGED <<localCode, pwdModal, alerted, files, promptIn, prompt, sent, body, reader, done,
                   finalUrl, buffer, pend, handed, other, aside, db, nGen, res, up, fetched, apiStatus>>
    /\ UNCHANGED workerVars

\* a page that keeps the stored code when the answer is 401
ResponseArrivesKeepsCode ==
    /\ pc = "fetch" /\ res # <<>> /\ res[1].to = "page"
    /\ res' = <<>>
    /\ LET r == res[1] IN
       IF r.status \notin 200..299
       THEN /\ Fail(IF r.status = 401 THEN <<"wrong password">>
                    ELSE IF r.error # <<>> THEN r.error ELSE <<"request failed">>)
            /\ UNCHANGED <<localCode, pwdModal, sent, body, reader>>
       ELSE /\ sent' = r.body
            /\ body' = r.body
            /\ reader' = TRUE
            /\ pc' = "read"
            /\ UNCHANGED <<localCode, pwdModal, errShown, errText, events, loading, btn>>
    /\ UNCHANGED <<alerted, files, promptIn, prompt, done, finalUrl, buffer, pend, handed, other, aside, db, nGen, req, up, fetched, apiStatus>>
    /\ UNCHANGED workerVars

\* the response arrives: 401, another failure status, or the stream (lines 352-359)
ResponseArrives ==
    /\ pc = "fetch" /\ res # <<>> /\ res[1].to = "page"
    /\ res' = <<>>
    /\ LET r == res[1] IN
       IF r.status = 401
       THEN /\ localCode' = ""
            /\ pwdModal' = TRUE
            /\ Fail(<<"wrong password">>)
            /\ UNCHANGED <<sent, body, reader>>
       ELSE IF r.status \notin 200..299
            THEN /\ Fail(IF r.error # <<>> THEN r.error ELSE <<"request failed">>)
                 /\ UNCHANGED <<localCode, pwdModal, sent, body, reader>>
            ELSE /\ sent' = r.body
                 /\ body' = r.body
                 /\ reader' = TRUE
                 /\ pc' = "read"
                 /\ UNCHANGED <<localCode, pwdModal, errShown, errText, events, loading, btn>>
    /\ UNCHANGED <<alerted, files, promptIn, prompt, done, finalUrl, buffer, pend, handed, other, aside, db, nGen, req, up, fetched, apiStatus>>
    /\ UNCHANGED workerVars

ReadState == [st |-> [finalUrl |-> finalUrl, btn |-> btn, events |-> events],
              buffer |-> buffer, pend |-> pend]

\* reader.read() gives the next bytes of the body, any number from 1 to MaxChunk (lines 392-401)
ReadChunk ==
    /\ pc = "read" /\ body # <<>>
    /\ \E k \in 1..MaxChunk :
          /\ k <= Len(body)
          /\ LET r == ReadStep(ReadState, loading, SubSeq(body, 1, k), FALSE) IN
             /\ finalUrl' = r.st.finalUrl
             /\ btn' = r.st.btn
             /\ events' = r.st.events
             /\ buffer' = r.buffer
             /\ handed' = handed \o r.calls
             /\ UNCHANGED <<other, aside>>
             /\ pend' = r.pend
          /\ body' = SubSeq(body, k + 1, Len(body))
    /\ done' = FALSE
    /\ UNCHANGED <<localCode, pwdModal, alerted, loading, files, promptIn, errShown, errText,
                   pc, prompt, sent, reader, db, nGen, req, res, up, fetched, apiStatus>>
    /\ UNCHANGED workerVars

\* the read loop's end without the check of finalUrl: db.add is awaited whatever was found
ReadDoneUnchecked ==
    /\ pc = "read" /\ body = <<>>
    /\ LET r == ReadStep(ReadState, loading, <<>>, TRUE) IN
       /\ finalUrl' = r.st.finalUrl
       /\ buffer' = r.buffer
       /\ handed' = handed \o r.calls
       /\ UNCHANGED <<other, aside>>
       /\ pend' = r.pend
       /\ btn' = r.st.btn
       /\ events' = r.st.events
       /\ pc' = "store"
    /\ done' = TRUE
    /\ UNCHANGED <<localCode, pwdModal, alerted, files, promptIn, prompt, sent, body, reader, db,
                   nGen, req, res, up, fetched, apiStatus, errShown, errText, loading>>
    /\ UNCHANGED workerVars

\* reader.read() gives done: the rest of the buffer is processed, then either
\* the missing link is an error or db.add is awaited (lines 403-414)
ReadDone ==
    /\ pc = "read" /\ body = <<>>
    /\ LET r == ReadStep(ReadState, loading, <<>>, TRUE) IN
       /\ finalUrl' = r.st.finalUrl
       /\ buffer' = r.buffer
       /\ handed' = handed \o r.calls
       /\ UNCHANGED <<other, aside>>
       /\ pend' = r.pend
       /\ IF r.st.finalUrl = <<>>
          THEN /\ errShown' = TRUE
               /\ errText' = <<"no result link">>
               /\ events' = Append(r.st.events, Error(<<"no result link">>))
               /\ loading' = FALSE
               /\ btn' = RenderLoading(FALSE, <<>>, r.st.btn)
               /\ pc' = "idle"
          ELSE /\ btn' = r.st.btn
               /\ events' = r.st.events
               /\ pc' = "store"
               /\ UNCHANGED <<errShown, errText, loading>>
    /\ done' = TRUE
    /\ UNCHANGED <<localCode, pwdModal, alerted, files, promptIn, prompt, sent, body, reader, db,
                   nGen, req, res, up, fetched, apiStatus>>
    /\ UNCHANGED workerVars

\* a rejected read that is reported like a stream that gave no link
ReadFailsNoResult ==
    /\ pc = "read"
    /\ Fail(IF finalUrl = <<>> THEN <<"no result link">> ELSE <<"network error">>)
    /\ UNCHANGED <<localCode, pwdModal, alerted, files, promptIn, prompt, sent, body, reader, done,
                   finalUrl, buffer, pend, handed, other, aside, db, nGen, req, res, up, fetched, apiStatus>>
    /\ UNCHANGED workerVars

\* a rejected read taken for the end of the stream: what was found so far is stored
ReadFailsAsEnd ==
    /\ pc = "read"
    /\ IF finalUrl = <<>>
       THEN Fail(<<"network error">>)
       ELSE pc' = "store" /\ UNCHANGED <<errShown, errText, events, loading, btn>>
    /\ UNCHANGED <<localCode, pwdModal, alerted, files, promptIn, prompt, sent, body, reader, done,
                   finalUrl, buffer, pend, handed, other, aside, db, nGen, req, res, up, fetched, apiStatus>>
    /\ UNCHANGED workerVars

\* reader.read() rejects: the connection broke
ReadFails ==
    /\ pc = "read"
    /\ Fail(<<"network error">>)
    /\ UNCHANGED <<localCode, pwdModal, alerted, files, promptIn, prompt, sent, body, reader, done,
                   finalUrl, buffer, pend, handed, other, aside, db, nGen, req, res, up, fetched, apiStatus>>
    /\ UNCHANGED workerVars

\* a db.add that stores the record of the call twice
DbAddDoneTwice ==
    /\ pc = "store"
    /\ db' = db \o <<[id |-> nGen, url |-> ProxyUrl(finalUrl), prompt |-> prompt, model |-> ModelId],
                     [id |-> nGen, url |-> ProxyUrl(finalUrl), prompt |-> prompt, model |-> ModelId]>>
    /\ events' = Append(events, Result(finalUrl))
    /\ promptIn' = ""
    /\ files' = <<>>
    /\ pc' = "gallery"
    /\ UNCHANGED <<localCode, pwdModal, alerted, loading, btn, errShown, errText, prompt, sent, body,
                   reader, done, finalUrl, buffer, pend, handed, other, aside, nGen, req, res, up, fetched, apiStatus>>
    /\ UNCHANGED workerVars

\* db.add resolves: the record is stored, the prompt and the files are cleared,
\* render.gallery is awaited (lines 412-417)
DbAddDone ==
    /\ pc = "store"
    /\ db' = Append(db, [id |-> nGen, url |-> ProxyUrl(finalUrl), prompt |-> prompt, model |-> ModelId])
    /\ events' = Append(events, Result(finalUrl))
    /\ promptIn' = ""
    /\ files' = <<>>
    /\ pc' = "gallery"
    /\ UNCHANGED <<localCode, pwdModal, alerted, loading, btn, errShown, errText, prompt, sent, body,
                   reader, done, finalUrl, buffer, pend, handed, other, aside, nGen, req, res, up, fetched, apiStatus>>
    /\ UNCHANGED workerVars

\* a rejected db.add after which the body is read once more from its start
DbAddFailsRereads ==
    /\ pc = "store"
    /\ pc' = "read"
    /\ body' = sent
    /\ UNCHANGED <<localCode, pwdModal, alerted, files, promptIn, prompt, sent, reader, done, loading, btn,
                   errShown, errText, events, finalUrl, buffer, pend, handed, other, aside, db, nGen,
                   req, res, up, fetched, apiStatus>>
    /\ UNCHANGED workerVars

\* db.add rejects (db.open's r.onerror = rej): the rejection is an event with
\* no message, so err-text is set to the empty text
DbAddFails ==
    /\ pc = "store"
    /\ Fail(<<>>)
    /\ UNCHANGED <<localCode, pwdModal, alerted, files, promptIn, prompt, sent, body, reader, done,
                   finalUrl, buffer, pend, handed, other, aside, db, nGen, req, res, up, fetched, apiStatus>>
    /\ UNCHANGED workerVars

\* render.gallery throws after the record was stored
GalleryThrows ==
    /\ pc = "gallery"
    /\ Fail(<<"gallery failed">>)
    /\ UNCHANGED <<localCode, pwdModal, alerted, files, promptIn, prompt, sent, body,
                   reader, done, finalUrl, buffer, pend, handed, other, aside, db, nGen, req, res, up, fetched, apiStatus>>
    /\ UNCHANGED workerVars

\* render.gallery resolves; finally resets the button (lines 417, 422-425)
GalleryDone ==
    /\ pc = "gallery"
    /\ loading' = FALSE
    /\ btn' = RenderLoading(FALSE, <<>>, btn)
    /\ pc' = "idle"
    /\ UNCHANGED <<localCode, pwdModal, alerted, files, promptIn, errShown, errText, prompt, sent, body,
                   reader, done, finalUrl, buffer, pend, handed, other, aside, events, db, nGen, req, res, up, fetched, apiStatus>>
    /\ UNCHANGED workerVars

Next ==
    \/ Generate
    \/ SubmitPwd
    \/ HandleGenerateRequest
    \/ UpstreamResponds
    \/ UpstreamFails
    \/ HandleProxyRequest
    \/ ProxyResponds
    \/ ProxyFails
    \/ ServePage
    \/ ExternalRequest
    \/ ExternalReceives
    \/ FetchFails
    \/ ResponseArrives
    \/ ReadChunk
    \/ ReadDone
    \/ ReadFails
    \/ DbAddDone
    \/ DbAddFails
    \/ GalleryDone

Spec == Init /\ [][Next]_vars

\* ------------------------------------------------- the read loop by itself
\* frames whose text fields hold prose, pieces of a tag, a fenced block and
\* a large percentage
Frames == {<<"data:", "{", "C", "x", SP, "http", "a", SP, "x", "}">>,
           <<"data:", "{", "C", "<", "src=", "'", "http", "}">>,
           <<"data:", "{", "C", "a", "'", ">", "}">>,
           <<"data:", "{", "C", FenceOpen, EscLF, "http", "a", EscLF, FenceClose, "}">>,
           <<"data:", "{", "C", FenceOpen, EscLF, "<", "src=", "'", "http", "'", ">", EscLF, FenceClose, "}">>,
           <<"data:", "{", "R", "2", "5", "0", "%", "}">>,
           LineTag, LineBare, LineProgress9, LineDone, LineMalformed, LineBlank}

\* bodies of 1..MaxFragments frames, a line feed after each
FrameStreams == {Join(ls) : ls \in UNION {[1..n -> Frames] : n \in 1..MaxFragments}}

\* bodies with progress and a result, with progress alone, with a result alone
UpstreamAnswers ==
    UpstreamRespondsWith({Join(<<LineProgress9, LineBare>>), Join(<<LineProgress42>>), Join(<<LineTag>>)})

\* what goes on by itself once a request is under way: the worker handles the
\* request, its fetch settles, the response or the failure reaches the page,
\* the response stream ends or fails, db.add and render.gallery settle
Continue ==
    \/ HandleGenerateRequest \/ UpstreamAnswers \/ UpstreamFails
    \/ FetchFails \/ ResponseArrives
    \/ ReadDone \/ ReadFails
    \/ DbAddDone \/ DbAddFails \/ GalleryDone

\* the page and the generate route, the upstream answering with one of a few bodies
LiveNext == Generate \/ SubmitPwd \/ ReadChunk \/ Continue

\* that system with every awaited promise settling
LiveSpec == Init /\ [][LiveNext]_vars /\ WF_vars(Continue)

\* the page with a stored code the worker does not accept, and one call more
\* than MaxSessions, so that a call can follow the one that was answered 401
MaxRetries == 1
RetryInit == Init /\ env = [key |-> TRUE, code |-> "good"] /\ localCode = "bad"
RetryNext ==
    \/ GenerateWithin(MaxSessions + MaxRetries) \/ SubmitPwdWithin(MaxSessions + MaxRetries)
    \/ HandleGenerateRequest \/ UpstreamResponds \/ UpstreamFails
    \/ FetchFails \/ ResponseArrives
    \/ ReadChunk \/ ReadDone \/ ReadFails
    \/ DbAddDone \/ DbAddFails \/ GalleryDone
RetrySpec == RetryInit /\ [][RetryNext]_vars

\* ------------------------------------------------------- the file picker
\* the files of a selection, each with the number of its selection
Selections(n) ==
    {[i \in 1..Len(fs) |-> [kind |-> fs[i].kind, mimeType |-> fs[i].mimeType, data |-> fs[i].data, sel |-> n]] :
        fs \in FileSeqs \ {<<>>}}

\* what the file picker leaves alone
notPicker == <<env, req, wpc, up, fetched, apiStatus, res, localCode, pwdModal, alerted, loading,
               promptIn, btn, errShown, errText, pc, prompt, sent, body, reader, done, finalUrl,
               buffer, pend, handed, events, db, nGen, other,
               pendingRequests, calls, savedCode, showPasswordModal, pageError, history>>

\* handleFileUpload(i) up to its first await (line 326): the call
\* state.files.push(...) takes the array state.files holds and its push
\* before the argument, and with it the await, is evaluated
HandleFileUpload ==
    /\ upload.pc = "idle" /\ picked.n < MaxUploads
    /\ \E fs \in Selections(picked.n + 1) :
          upload' = [pc |-> "convert", rest |-> fs, bound |-> TRUE]
    /\ picked' = [picked EXCEPT !.n = picked.n + 1]
    /\ UNCHANGED files
    /\ UNCHANGED notPicker

\* fileToBase64 resolves: the file is pushed onto the array the call was
\* bound to, which state.files may hold no longer; the next turn of the loop
\* takes the array state.files holds then; after the last file the loop ends
ConvertDone ==
    /\ upload.pc = "convert"
    /\ files' = IF upload.bound THEN Append(files, Head(upload.rest)) ELSE files
    /\ upload' = IF Len(upload.rest) > 1
                 THEN [pc |-> "convert", rest |-> Tail(upload.rest), bound |-> TRUE]
                 ELSE [pc |-> "idle", rest |-> <<>>, bound |-> FALSE]
    /\ UNCHANGED picked
    /\ UNCHANGED notPicker

\* fileToBase64 rejects (r.onerror = rej): handleFileUpload is left by the throw
ConvertFails ==
    /\ upload.pc = "convert"
    /\ upload' = [pc |-> "idle", rest |-> <<>>, bound |-> FALSE]
    /\ UNCHANGED <<files, picked>>
    /\ UNCHANGED notPicker

\* setMode(m) (line 323): state.files = [] is a new array; an upload that is
\* suspended in a push keeps the old one
SetMode ==
    /\ files' = <<>>
    /\ upload' = [upload EXCEPT !.bound = FALSE]
    /\ picked' = [picked EXCEPT !.stale = picked.n]
    /\ UNCHANGED notPicker

\* clearFiles() (line 327): state.files = [] likewise
ClearFiles ==
    /\ files' = <<>>
    /\ upload' = [upload EXCEPT !.bound = FALSE]
    /\ picked' = [picked EXCEPT !.stale = picked.n]
    /\ UNCHANGED notPicker

\* the page with nothing but its file picker in use
UploadInit == Init /\ env = [key |-> TRUE, code |-> ""] /\ localCode = "" /\ promptIn = ""

UploadNext == HandleFileUpload \/ ConvertDone \/ ConvertFails \/ SetMode \/ ClearFiles

UploadSpec == UploadInit /\ [][UploadNext]_vars

\* ------------------------------------------ the non-streaming variant
\* what the non-streaming page and its worker leave alone
notNs == <<req, wpc, up, fetched, apiStatus, res, localCode, pwdModal, alerted, loading, files,
           promptIn, btn, errShown, errText, pc, prompt, sent, body, reader, done, finalUrl,
           buffer, pend, handed, events, db, nGen, other, upload, picked>>

\* the bodies the upstream sends with a non-success status: JSON with
\* error.message, JSON without it, text that is no JSON
UpstreamMessage == "model overloaded"
BodyJsonMessage == <<"{error:{message:", UpstreamMessage, "}}">>
BodyJsonOther == <<"{detail:", "x", "}">>

\* JSON.parse(errorText) and errJson.error?.message: <<>> stands for undefined
ParsesAsJson(b) == b \in {BodyJsonMessage, BodyJsonOther}
ErrorMessageOf(b) == IF b = BodyJsonMessage THEN <<UpstreamMessage>> ELSE <<>>

ApiError(status, b) == <<"API Error (", status, "): ">> \o b

\* lines 579-581: what the try block throws; JSON.parse throws on text that is
\* no JSON, and the throw statement throws in every other case
ThrownInTry(b) ==
    IF ParsesAsJson(b)
    THEN (IF ErrorMessageOf(b) # <<>> THEN ErrorMessageOf(b) ELSE b)
    ELSE <<"Unexpected token">>

\* lines 577-585: whatever the try block throws is caught by the catch of the
\* same try, which throws the API Error text in its place
NonSuccessError(status, b) ==
    IF ThrownInTry(b) # <<>> THEN ApiError(status, b) ELSE <<>>

\* the bodies the upstream sends with a success status: a message content
\* with a URL in it, one without, no content, text that is no JSON

\* lines 587-613: the response for a success status
SuccessResponse(b) ==
    CASE b = "content with url" -> [status |-> 200, error |-> <<>>, url |-> <<"http", "a">>]
      [] b = "content without url" -> [status |-> 200, error |-> <<>>, url |-> <<"x", SP, "y">>]
      [] b = "no content" -> [status |-> 500, error |-> <<"no valid content">>, url |-> <<>>]
      [] OTHER -> [status |-> 500, error |-> <<"Unexpected token">>, url |-> <<>>]


\* the last doGenerate call, the only one that can be in flight (the button is
\* disabled while pendingRequests has an entry, the modal is hidden by its submit)
InFlight == calls # <<>> /\ calls[Len(calls)].pc # "done"
Last == calls[Len(calls)]
SetLast(r) == [calls EXCEPT ![Len(calls)] = r]
Without(ps, id) == SelectSeq(ps, LAMBDA p : p # id)

\* doGenerate(code) up to its first await (lines 815-833); tempId is the number of the call
DoGenerate(code) ==
    \E p \in {"", "a prompt"} :
        IF p = ""
        THEN /\ pageError' = <<"no prompt and no file">>
             /\ UNCHANGED <<pendingRequests, calls>>
        ELSE /\ pageError' = <<>>
             /\ pendingRequests' = <<Len(calls) + 1>> \o pendingRequests
             /\ calls' = Append(calls, [pc |-> "fetch", code |-> code, upStatus |-> 0, upBody |-> <<>>,
                                        res |-> [status |-> 0, error |-> <<>>, url |-> <<>>]])

\* checkAndGenerate (lines 798-805), the button's onClick
CheckAndGenerate ==
    /\ pendingRequests = <<>> /\ ~InFlight /\ Len(calls) < MaxCalls
    /\ IF savedCode # ""
       THEN DoGenerate(savedCode) /\ UNCHANGED showPasswordModal
       ELSE showPasswordModal' = TRUE /\ UNCHANGED <<pendingRequests, calls, pageError>>
    /\ UNCHANGED <<savedCode, history, env>>
    /\ UNCHANGED notNs

\* handlePasswordSubmit (lines 807-813) with a non-empty input
HandlePasswordSubmit ==
    /\ showPasswordModal /\ ~InFlight /\ Len(calls) < MaxCalls
    /\ \E v \in Codes :
          /\ savedCode' = v
          /\ DoGenerate(v)
    /\ showPasswordModal' = FALSE
    /\ UNCHANGED <<history, env>>
    /\ UNCHANGED notNs

\* the worker's handleGenerateRequest up to its fetch (lines 490-575)
NsHandleGenerateRequest ==
    /\ InFlight /\ Last.pc = "fetch"
    /\ calls' = SetLast(
          IF ~env.key
          THEN [Last EXCEPT !.pc = "response", !.res = [status |-> 500, error |-> <<"SORA_API_KEY missing">>, url |-> <<>>]]
          ELSE IF ~Authorized(env.code, Last.code)
               THEN [Last EXCEPT !.pc = "response", !.res = [status |-> 401, error |-> <<"wrong access code">>, url |-> <<>>]]
               ELSE [Last EXCEPT !.pc = "upstream"])
    /\ UNCHANGED <<pendingRequests, savedCode, showPasswordModal, pageError, history, env>>
    /\ UNCHANGED notNs

\* the upstream answers (lines 577-613); every error ends in the catch, which answers 500 (615-620)
NsUpstreamResponds ==
    /\ InFlight /\ Last.pc = "upstream"
    /\ \/ \E status \in UpstreamStatuses \ {200}, b \in {BodyJsonMessage, BodyJsonOther, <<"Bad Gateway">>} :
             calls' = SetLast([Last EXCEPT !.pc = "response", !.upStatus = status, !.upBody = b,
                                           !.res = [status |-> 500, error |-> NonSuccessError(status, b), url |-> <<>>]])
       \/ \E b \in {"content with url", "content without url", "no content", "not json"} :
             calls' = SetLast([Last EXCEPT !.pc = "response", !.upStatus = 200, !.upBody = <<b>>,
                                           !.res = SuccessResponse(b)])
    /\ UNCHANGED <<pendingRequests, savedCode, showPasswordModal, pageError, history, env>>
    /\ UNCHANGED notNs

\* fetch(apiUrl) throws: the catch answers 500 with the message
NsUpstreamFails ==
    /\ InFlight /\ Last.pc = "upstream"
    /\ calls' = SetLast([Last EXCEPT !.pc = "response",
                                     !.res = [status |-> 500, error |-> <<"fetch failed">>, url |-> <<>>]])
    /\ UNCHANGED <<pendingRequests, savedCode, showPasswordModal, pageError, history, env>>
    /\ UNCHANGED notNs

\* a conversion or the page's fetch rejects: catch and finally (lines 879-884)
NsFetchFails ==
    /\ InFlight /\ Last.pc = "fetch"
    /\ pageError' = <<"Failed to fetch">>
    /\ pendingRequests' = Without(pendingRequests, Len(calls))
    /\ calls' = SetLast([Last EXCEPT !.pc = "done"])
    /\ UNCHANGED <<savedCode, showPasswordModal, history, env>>
    /\ UNCHANGED notNs

\* the response is there (lines 852-877): 401, another failure status, or the result
NsResponseArrives ==
    /\ InFlight /\ Last.pc = "response"
    /\ LET r == Last.res IN
       IF r.status = 401
       THEN /\ savedCode' = ""
            /\ showPasswordModal' = TRUE
            /\ pageError' = <<"wrong access code, enter it again">>
            /\ pendingRequests' = Without(Without(pendingRequests, Len(calls)), Len(calls))
            /\ calls' = SetLast([Last EXCEPT !.pc = "done"])
       ELSE IF r.status \notin 200..299
            THEN /\ pageError' = (IF r.error # <<>> THEN r.error ELSE <<"request failed">>)
                 /\ pendingRequests' = Without(pendingRequests, Len(calls))
                 /\ calls' = SetLast([Last EXCEPT !.pc = "done"])
                 /\ UNCHANGED <<savedCode, showPasswordModal>>
            ELSE /\ calls' = SetLast([Last EXCEPT !.pc = "store"])
                 /\ UNCHANGED <<savedCode, showPasswordModal, pageError, pendingRequests>>
    /\ UNCHANGED <<history, env>>
    /\ UNCHANGED notNs

\* a catch after which the entry of the call stays in pendingRequests
NsDbAddFailsNoFinally ==
    /\ InFlight /\ Last.pc = "store"
    /\ pageError' = <<"db failed">>
    /\ calls' = SetLast([Last EXCEPT !.pc = "done"])
    /\ UNCHANGED <<pendingRequests, savedCode, showPasswordModal, history, env>>
    /\ UNCHANGED notNs

\* dbHelper.add rejects: catch and finally (lines 879-884)
NsDbAddFails ==
    /\ InFlight /\ Last.pc = "store"
    /\ pageError' = <<"db failed">>
    /\ pendingRequests' = Without(pendingRequests, Len(calls))
    /\ calls' = SetLast([Last EXCEPT !.pc = "done"])
    /\ UNCHANGED <<savedCode, showPasswordModal, history, env>>
    /\ UNCHANGED notNs

\* dbHelper.add resolves: the item is put in front of history, then finally (lines 876-884)
NsDbAddDone ==
    /\ InFlight /\ Last.pc = "store"
    /\ history' = <<[id |-> Len(calls), url |-> Last.res.url]>> \o history
    /\ pendingRequests' = Without(pendingRequests, Len(calls))
    /\ calls' = SetLast([Last EXCEPT !.pc = "done"])
    /\ UNCHANGED <<savedCode, showPasswordModal, pageError, env>>
    /\ UNCHANGED notNs

\* the non-streaming page as it is mounted, with or without a stored code
NsInit ==
    /\ env \in [key : BOOLEAN, code : {"", "good"}]
    /\ req = <<>> /\ wpc = "idle" /\ up = <<>> /\ fetched = <<>> /\ apiStatus = 0 /\ res = <<>>
    /\ localCode = "" /\ pwdModal = FALSE /\ alerted = FALSE /\ loading = FALSE
    /\ files = <<>> /\ promptIn = ""
    /\ btn = Ready /\ errShown = FALSE /\ errText = <<>>
    /\ pc = "idle" /\ prompt = "" /\ sent = <<>> /\ body = <<>> /\ reader = FALSE /\ done = FALSE
    /\ finalUrl = <<>> /\ buffer = <<>> /\ pend = <<>> /\ handed = <<>>
    /\ events = <<>> /\ db = <<>> /\ nGen = 0
    /\ other = NoCall
    /\ upload = [pc |-> "idle", rest |-> <<>>, bound |-> FALSE]
    /\ picked = [n |-> 0, stale |-> 0]
    /\ pendingRequests = <<>> /\ calls = <<>>
    /\ savedCode \in {""} \cup Codes
    /\ showPasswordModal = FALSE /\ pageError = <<>> /\ history = <<>>

NsNext ==
    \/ CheckAndGenerate \/ HandlePasswordSubmit
    \/ NsHandleGenerateRequest \/ NsUpstreamResponds \/ NsUpstreamFails
    \/ NsFetchFails \/ NsResponseArrives
    \/ NsDbAddDone \/ NsDbAddFails

NsSpec == NsInit /\ [][NsNext]_vars

\* the page after a generate call got a 2xx response and its reader (line 356)
ReadInit ==
    /\ env = [key |-> TRUE, code |-> "good"]
    /\ req = <<>> /\ wpc = "idle" /\ res = <<>> /\ apiStatus = 200
    /\ fetched = <<>>
    /\ up = <<Payload([from |-> "page", header |-> "good", model |-> ModelId,
                       prompt |-> "a prompt", files |-> <<>>])>>
    /\ localCode = "good"
    /\ pwdModal = FALSE /\ alerted = FALSE /\ loading = TRUE
    /\ files = <<>> /\ promptIn = "a prompt"
    /\ btn = RenderLoading(TRUE, <<"0">>, Ready) /\ errShown = FALSE /\ errText = <<>>
    /\ pc = "read" /\ prompt = "a prompt"
    /\ sent \in FrameStreams /\ body = sent /\ reader = TRUE /\ done = FALSE
    /\ finalUrl = <<>> /\ buffer = <<>> /\ pend = <<>> /\ handed = <<>>
    /\ events = <<>> /\ db = <<>> /\ nGen = 1
    /\ other = NoCall
    /\ AsideInit

ReadNext ==
    \/ ReadChunk
    \/ ReadDone
    \/ ReadFails
    \/ DbAddDone
    \/ DbAddFails
    \/ GalleryDone

ReadSpec == ReadInit /\ [][ReadNext]_vars

\* ------------------------------------------------------ two calls at once
\* the locals of the call of actions.generate that is running
Current == [pc |-> pc, prompt |-> prompt, sent |-> sent, body |-> body, reader |-> reader, done |-> done,
            finalUrl |-> finalUrl, buffer |-> buffer, pend |-> pend, handed |-> handed, events |-> events,
            nGen |-> nGen]

\* the call that is running is suspended at its await and the other call goes
\* on: each call has its own locals, and state, the page's elements,
\* localStorage and the database are the same for both
Switch ==
    /\ other.pc # "idle"
    /\ other' = Current
    /\ pc' = other.pc /\ prompt' = other.prompt /\ sent' = other.sent /\ body' = other.body
    /\ reader' = other.reader /\ done' = other.done /\ finalUrl' = other.finalUrl
    /\ buffer' = other.buffer /\ pend' = other.pend /\ handed' = other.handed
    /\ events' = other.events /\ nGen' = other.nGen
    /\ UNCHANGED <<localCode, pwdModal, alerted, loading, files, promptIn, btn, errShown, errText, db,
                   req, res, up, fetched, apiStatus, aside>>
    /\ UNCHANGED workerVars

\* the bodies of the two responses
OverlapStreams == {Join(<<LineProgress9, LineBare>>), Join(<<LineProgress42>>), Join(<<LineBare>>)}

\* actions.generate was called a second time while the first call awaited, and
\* both calls have their 2xx response and their reader
OverlapInit ==
    /\ env = [key |-> TRUE, code |-> "good"]
    /\ req = <<>> /\ wpc = "idle" /\ res = <<>> /\ apiStatus = 200
    /\ fetched = <<>>
    /\ up = <<Payload([from |-> "page", header |-> "good", model |-> ModelId,
                       prompt |-> "a prompt", files |-> <<>>])>>
    /\ localCode = "good"
    /\ pwdModal = FALSE /\ alerted = FALSE /\ loading = TRUE
    /\ files = <<>> /\ promptIn = "a prompt"
    /\ btn = RenderLoading(TRUE, <<"0">>, Ready) /\ errShown = FALSE /\ errText = <<>>
    /\ pc = "read" /\ prompt = "a prompt"
    /\ sent \in OverlapStreams /\ body = sent /\ reader = TRUE /\ done = FALSE
    /\ finalUrl = <<>> /\ buffer = <<>> /\ pend = <<>> /\ handed = <<>>
    /\ events = <<>> /\ db = <<>> /\ nGen = 1
    /\ \E s \in OverlapStreams :
          other = [NoCall EXCEPT !.pc = "read", !.prompt = "a prompt", !.sent = s, !.body = s,
                                 !.reader = TRUE, !.nGen = 2]
    /\ AsideInit

OverlapNext ==
    \/ Switch
    \/ ReadChunk
    \/ ReadDone
    \/ ReadFails
    \/ DbAddDone
    \/ DbAddFails
    \/ GalleryDone

OverlapSpec == OverlapInit /\ [][OverlapNext]_vars

\* ===================================================================== claims
\* the session's progress updates and its terminal outcomes, in order
ProgressEvents == SelectSeq(events, LAMBDA e : e.type = "progress")
TerminalEvents == SelectSeq(events, LAMBDA e : e.type # "progress")

\* the call has returned
Ended == pc = "idle" /\ nGen > 0 /\ req = <<>> /\ res = <<>>

\* the read loop on a body that arrives as one chunk
Fresh == [st |-> [finalUrl |-> <<>>, btn |-> RenderLoading(TRUE, <<"0">>, Ready), events |-> <<>>],
          buffer |-> <<>>, pend |-> <<>>]
OneChunk(s) == ReadStep(ReadStep(Fresh, TRUE, s, FALSE), TRUE, <<>>, TRUE).st

\* the lines of a body, and a body from lines
LinesOf(s) == Split(Decode(<<>>, s, FALSE).out)
RECURSIVE Unsplit(_)
Unsplit(ls) == IF ls = <<>> THEN <<>>
               ELSE IF Len(ls) = 1 THEN EncodeText(ls[1])
               ELSE EncodeText(ls[1]) \o <<LF>> \o Unsplit(Tail(ls))

IsData(line) == Trim(line) # <<>> /\ Head(Trim(line)) = "data:"
PayloadOf(line) == Trim(Tail(Trim(line)))
IsSentinel(line) == IsData(line) /\ PayloadOf(line) = <<"[DONE]">>
IsMalformed(line) == IsData(line) /\ ~IsSentinel(line) /\ ~ParseDelta(PayloadOf(line)).ok
IsValid(line) == IsData(line) /\ ~IsSentinel(line) /\ ParseDelta(PayloadOf(line)).ok

Contains(s, c) == \E i \in 1..Len(s) : s[i] = c
NoRecordOfThisCall == \A i \in 1..Len(db) : db[i].id # nGen

\* C1: a session that got as far as reading the response ends with exactly one
\* terminal outcome, a stored record with the extracted URL or a shown error,
\* never both and never neither, and it is the last thing the session shows
ExactlyOneTerminal ==
    /\ Len(TerminalEvents) <= 1
    /\ TerminalEvents # <<>> => events[Len(events)] = TerminalEvents[1]
    /\ (reader /\ pc = "idle") => Len(TerminalEvents) = 1
    /\ pc \in {"read", "store"} => TerminalEvents = <<>>
    /\ \A i \in 1..Len(events) :
          /\ events[i].type = "result" =>
                /\ ~errShown
                /\ events[i].val = finalUrl /\ finalUrl # <<>>
                /\ Cardinality({k \in 1..Len(db) : db[k].id = nGen}) = 1
                /\ db[Len(db)].id = nGen /\ db[Len(db)].url = ProxyUrl(finalUrl)
          /\ events[i].type = "error" =>
                /\ errShown /\ errText = events[i].val
                /\ NoRecordOfThisCall

\* C1 witnesses: a session ended with a record, and one ended with an error after progress
ResultStored == Ended /\ reader /\ TerminalEvents # <<>> /\ TerminalEvents[1].type = "result" /\ ProgressEvents # <<>>

\* C2: the percent values of a session's progress updates never decrease
ProgressNonDecreasing ==
    \A i, j \in 1..Len(ProgressEvents) :
       i < j => NumVal(ProgressEvents[i].val) <= NumVal(ProgressEvents[j].val)

\* C3: however the body is cut into chunks, the progress updates and the
\* terminal outcome are those of the body read as one chunk
ChunkingInvariant ==
    done => /\ finalUrl = OneChunk(sent).finalUrl
            /\ ProgressEvents = OneChunk(sent).events
            /\ finalUrl = <<>> => events = Append(OneChunk(sent).events, Error(<<"no result link">>))
            /\ TerminalEvents # <<>> =>
                  TerminalEvents[1] \in {Result(OneChunk(sent).finalUrl), Error(<<"no result link">>),
                                         Error(<<>>)}

\* C3 witness: a body of more bytes than one chunk holds, with a two-byte
\* character in the URL it gives and progress before it
ChunkedWideResult ==
    /\ done /\ Ended /\ Len(sent) > 2 * MaxChunk
    /\ Contains(finalUrl, Wide) /\ Contains(sent, LeadByte)
    /\ ProgressEvents # <<>>
    /\ TerminalEvents = <<Result(finalUrl)>>

\* the body without its malformed frames
WithoutMalformed(s) == Unsplit(SelectSeq(LinesOf(s), LAMBDA l : ~IsMalformed(l)))

\* C4: malformed frames never end the session or show an error: the outcome
\* is that of the body with the malformed frames taken out
MalformedFramesSkipped ==
    done => /\ finalUrl = OneChunk(WithoutMalformed(sent)).finalUrl
            /\ ProgressEvents = OneChunk(WithoutMalformed(sent)).events
            /\ finalUrl # <<>> => pc # "idle" \/ TerminalEvents \in {<<Result(finalUrl)>>, <<Error(<<>>)>>}
            /\ finalUrl = <<>> => TerminalEvents = <<Error(<<"no result link">>)>>

\* C4 witness: a malformed frame between a progress frame and a content frame, and a result
MalformedAmongValid ==
    /\ done /\ Ended /\ TerminalEvents = <<Result(finalUrl)>>
    /\ \E i, j, k \in 1..Len(LinesOf(sent)) :
          /\ i < j /\ j < k
          /\ IsValid(LinesOf(sent)[i]) /\ IsMalformed(LinesOf(sent)[j]) /\ IsValid(LinesOf(sent)[k])
          /\ ParseDelta(PayloadOf(LinesOf(sent)[k])).content # <<>>

\* the body up to its first sentinel frame
UpToSentinel(s) ==
    LET ls == LinesOf(s) IN
    IF \E i \in 1..Len(ls) : IsSentinel(ls[i])
    THEN LET i == CHOOSE k \in 1..Len(ls) : IsSentinel(ls[k]) /\ \A j \in 1..(k - 1) : ~IsSentinel(ls[j]) IN
         Unsplit(SubSeq(ls, 1, i)) \o <<LF>>
    ELSE s

\* C5: frames after the [DONE] sentinel change neither the progress shown nor
\* the extracted URL
SentinelStopsFrames ==
    done => /\ finalUrl = OneChunk(UpToSentinel(sent)).finalUrl
            /\ ProgressEvents = OneChunk(UpToSentinel(sent)).events

\* C6: a non-success status of the upstream gives the session one error that
\* carries the upstream's text, and nothing is read or shown as progress
UpstreamRejectedSurfaced ==
    (Ended /\ apiStatus # 0 /\ apiStatus \notin 200..299) =>
        /\ events = <<Error(<<"Upstream Error: ", UpstreamBody>>)>>
        /\ errShown /\ errText = <<"Upstream Error: ", UpstreamBody>>
        /\ ~reader

\* C7: a failure of reader.read() ends the session with that failure as the
\* error, and no record comes of the frames read before it
TransportFailureEnds ==
    (reader /\ pc = "idle" /\ ~done) =>
        /\ events = Append(ProgressEvents, Error(<<"network error">>))
        /\ errShown /\ errText = <<"network error">>
        /\ ~loading /\ btn = Ready
        /\ NoRecordOfThisCall

\* C7 witness: the read failed after a frame had given a URL
FailedAfterUrl == reader /\ pc = "idle" /\ ~done /\ finalUrl # <<>> /\ ProgressEvents # <<>> /\ body # <<>>

RequestRejected(h) == env.code # "" /\ h # env.code

\* C9 as stated: a request whose header is absent or differs from the
\* configured access code is answered 401 and causes no upstream request
UnauthorizedIs401 ==
    /\ (req # <<>> /\ IsGenerate(req[1]) /\ RequestRejected(req[1].header)) => (wpc = "idle" /\ up = <<>>)
    /\ (res # <<>> /\ IsGenerate(res[1]) /\ RequestRejected(res[1].header)) => (res[1].status = 401 /\ up = <<>>)

\* C9 amended: such a request causes no upstream request, and is answered 401
\* when SORA_API_KEY is configured and 500 when it is not
UnauthorizedStops ==
    /\ (req # <<>> /\ IsGenerate(req[1]) /\ RequestRejected(req[1].header)) => (wpc = "idle" /\ up = <<>>)
    /\ (res # <<>> /\ IsGenerate(res[1]) /\ RequestRejected(res[1].header)) =>
          /\ res[1].status = IF env.key THEN 401 ELSE 500
          /\ up = <<>> /\ apiStatus = 0 /\ res[1].body = <<>>

\* C9 witnesses: a differing header, answered 401
Rejected401 == res # <<>> /\ IsGenerate(res[1]) /\ RequestRejected(res[1].header) /\ res[1].header = "bad" /\ res[1].status = 401

\* the content fragments of the body's valid frames, in order, as one text
RECURSIVE ConcatContent(_)
ConcatContent(ls) ==
    IF ls = <<>> THEN <<>>
    ELSE (IF IsValid(Head(ls)) THEN ParseDelta(PayloadOf(Head(ls))).content ELSE <<>>)
            \o ConcatContent(Tail(ls))
Document(s) == ConcatContent(LinesOf(s))

\* C10: when the content has a tag with a src URL and a bare http URL after
\* it, the extracted URL is the tag's
TagBeforeBareUrl ==
    LET doc == Document(sent) IN
    (done /\ SrcMatch(doc) # <<>>
          /\ \E i \in 1..Len(doc) : doc[i] = "http" /\ i > SrcStart(doc) + Len(SrcMatch(doc)) + 2)
       => finalUrl = SrcMatch(doc)

\* C15: for one incoming request the worker sends at most one request to the
\* upstream, whether the upstream answers with a failure status, the fetch
\* throws or the body is passed through; nothing is sent before the checks pass
\* (a status with fetched not empty is the status of a proxied target)
UpstreamAtMostOnce ==
    /\ Len(up) <= 1
    /\ wpc = "upstream" => Len(up) = 1
    /\ (apiStatus # 0 /\ fetched = <<>>) => Len(up) = 1
    /\ fetched # <<>> => up = <<>>

\* C15 witness: the request went to the upstream once and was answered 500
FailedOnceAnswered == res # <<>> /\ res[1].status = 500 /\ env.key /\ Len(up) = 1

\* the progress updates that the frames of a body call for, frame by frame
RECURSIVE FrameProgress(_)
FrameProgress(ls) ==
    IF ls = <<>> THEN <<>>
    ELSE (IF IsValid(Head(ls)) /\ ProgMatch(ParseDelta(PayloadOf(Head(ls))).rc) # <<>>
          THEN <<Progress(ProgMatch(ParseDelta(PayloadOf(Head(ls))).rc))>>
          ELSE <<>>) \o FrameProgress(Tail(ls))

IsPrefix(a, b) == Len(a) <= Len(b) /\ a = SubSeq(b, 1, Len(a))

\* C14: the progress updates appear in the order of their frames in the
\* stream, and the terminal outcome comes after every progress update: once
\* the stream was read to its end, after the updates of all its frames
EventsInFrameOrder ==
    reader =>
        /\ IsPrefix(ProgressEvents, FrameProgress(LinesOf(sent)))
        /\ events = ProgressEvents \o TerminalEvents
        /\ done => ProgressEvents = FrameProgress(LinesOf(sent))

\* C14 witness: two progress frames and a content frame, read to the end
TwoProgressThenResult ==
    /\ done /\ Ended
    /\ events = <<Progress(<<"9">>), Progress(<<"4", "2">>), Result(finalUrl)>>

\* C17: a stream cut by a failing read ends in the failure's own message, a
\* stream that ends cleanly without a URL in the no-result message, and the
\* two messages differ
EndingsDiffer ==
    /\ (reader /\ pc = "idle" /\ ~done) =>
          /\ errShown /\ errText = <<"network error">>
          /\ events[Len(events)] = Error(<<"network error">>)
          /\ errText # <<"no result link">>
    /\ (done /\ finalUrl = <<>>) =>
          /\ errShown /\ errText = <<"no result link">>
          /\ events[Len(events)] = Error(<<"no result link">>)

\* C17 witness: the read failed in the middle of a frame, before any URL
CutMidFrame == reader /\ pc = "idle" /\ ~done /\ buffer # <<>> /\ body # <<>> /\ finalUrl = <<>>

NonEmpty(ls) == SelectSeq(ls, LAMBDA l : l # <<>>)

\* C19: the lines of the stream are given to processLine once each and in
\* stream order, however the body is cut into chunks; when the stream has
\* ended all of them were, the non-empty rest after the last line feed
\* included, and only empty pieces are left out
FramesOnceInOrder ==
    reader =>
        /\ IsPrefix(handed, LinesOf(sent))
        /\ done => /\ NonEmpty(handed) = NonEmpty(LinesOf(sent))
                   /\ Len(handed) >= Len(LinesOf(sent)) - 1

\* C19 witness: a stream of three lines, the second empty and the third
\* without its line feed, read to the end
TailHandedLast ==
    /\ done /\ Ended /\ Len(handed) = 3 /\ handed[2] = <<>>
    /\ handed[3] = buffer /\ buffer # <<>> /\ sent[Len(sent)] # LF

\* the files of a request that are images or videos, in their order
MediaFiles(fs) == SelectSeq(fs, LAMBDA f : f.kind \in {"image", "video"})
DataUri(f) == <<"data:", f.mimeType, ";base64,", f.data>>
PartOf(f) == [type |-> IF f.kind = "image" THEN "image_url" ELSE "video_url", val |-> DataUri(f)]
TextPart(p) == [type |-> "text", val |-> <<p>>]

\* C16 as stated: the content is the prompt alone when there is only a
\* prompt; otherwise every file of the request is a part, in order and
\* unchanged, and the text part follows when there is a prompt
EveryAttachmentSent ==
    wpc = "upstream" =>
        LET r == req[1]
            c == up[1].content
            n == Len(r.files) IN
        /\ up[1].plain <=> (n = 0 /\ r.prompt # "")
        /\ Len(c) = n + (IF r.prompt # "" THEN 1 ELSE 0)
        /\ \A i \in 1..n : i <= Len(c) /\ c[i] = PartOf(r.files[i])
        /\ r.prompt # "" => c[Len(c)] = TextPart(r.prompt)

\* C16 amended: the same of the files whose MIME type is an image's or a
\* video's; files of other types are left out
MediaAttachmentsSent ==
    wpc = "upstream" =>
        LET r == req[1]
            c == up[1].content
            m == MediaFiles(r.files) IN
        /\ Len(up) = 1 /\ up[1].stream /\ up[1].model = r.model
        /\ up[1].plain <=> (m = <<>> /\ r.prompt # "")
        /\ Len(c) = Len(m) + (IF r.prompt # "" THEN 1 ELSE 0)
        /\ \A i \in 1..Len(m) : c[i] = PartOf(m[i])
        /\ r.prompt # "" => c[Len(c)] = TextPart(r.prompt)

\* C16 witness: a video, then an image, and a prompt
VideoImagePrompt ==
    /\ wpc = "upstream" /\ req[1].files = <<FileVideo, FileImage>> /\ req[1].prompt # ""
    /\ Len(up[1].content) = 3

\* the characters a bare URL runs over: up to whitespace, a quote or a bracket
UrlChar == (StrChar \cup {"{", "}", "R", "C"}) \ (Whitespace \cup Quotes \cup {"<", ">", EscLF})

\* the first substring that begins with http and runs over UrlChar, <<>> when none
FirstUrl(s) ==
    IF \E i \in 1..Len(s) : s[i] = "http"
    THEN LET i == CHOOSE k \in 1..Len(s) : s[k] = "http" /\ \A j \in 1..(k - 1) : s[j] # "http" IN
         SubSeq(s, i, RunEnd(s, i, UrlChar))
    ELSE <<>>

\* the non-empty content fragments of the body's valid frames, in order
RECURSIVE Fragments(_)
Fragments(ls) ==
    IF ls = <<>> THEN <<>>
    ELSE (IF IsValid(Head(ls)) /\ ParseDelta(PayloadOf(Head(ls))).content # <<>>
          THEN <<ParseDelta(PayloadOf(Head(ls))).content>> ELSE <<>>) \o Fragments(Tail(ls))

\* C11: when the content, arrived as one fragment, has no media tag, the
\* result is the first bare URL in it, wherever in the text it stands
BareUrlAnywhere ==
    (done /\ Len(Fragments(LinesOf(sent))) = 1 /\ SrcMatch(Document(sent)) = <<>>)
        => finalUrl = FirstUrl(Document(sent))

\* C12: the result is what extraction gives on the concatenation of the
\* fragments, as if the content had arrived in one fragment
WholeDocumentExtraction ==
    done => finalUrl = ContentUrl(<<>>, Document(sent))

\* a document inside a fenced block, and the frame that brings a document
Wrap(d) == <<FenceOpen, LF>> \o d \o <<LF, FenceClose>>
ContentLine(d) == <<"data:", "{", "C">> \o d \o <<"}">>
Docs == {<<"http", "a">>, <<"<", "src=", "'", "http", "'", ">">>}

\* C13: a fenced document gives the URL, or the lack of one, that the
\* document gives without its fence
FenceTransparent ==
    done => \A d \in Docs :
               Document(sent) = Wrap(d) => finalUrl = OneChunk(Join(<<ContentLine(d)>>)).finalUrl

\* C18: every progress value shown is a whole number from 0 to 100
ProgressInRange ==
    \A i \in 1..Len(ProgressEvents) :
        /\ \A k \in 1..Len(ProgressEvents[i].val) : ProgressEvents[i].val[k] \in Digits
        /\ NumVal(ProgressEvents[i].val) \in 0..100

Running(p) == p \in {"read", "store", "gallery"}
ProgressOf(es) == SelectSeq(es, LAMBDA e : e.type = "progress")

OneShot ==
    [][(reader /\ pc # "read" /\ nGen' = nGen) =>
          /\ pc' # "read"
          /\ body' = body /\ buffer' = buffer /\ pend' = pend
          /\ handed' = handed /\ finalUrl' = finalUrl
          /\ ProgressEvents' = ProgressEvents]_vars

\* C21 witness: the loop ended with a result that is stored while the call has not returned yet
StoredNotReturned == pc = "gallery" /\ done /\ Len(handed) >= 2 /\ db # <<>>

\* C22: when an access code is configured, the worker makes an outbound fetch
\* for a request only if the request carries the matching x-access-code
\* header, on every route, GET /api/proxy included
AccessCodeGuardsEveryFetch ==
    env.code # "" =>
        /\ wpc # "idle" => req[1].header = env.code
        /\ (res # <<>> /\ (up # <<>> \/ fetched # <<>>)) => res[1].header = env.code

\* C30: handleProxyRequest fetches only when the url parameter is present: a
\* missing parameter gives status 400 and no fetch, a fetch that throws gives
\* status 500, and otherwise the target's status is relayed unchanged with
\* Access-Control-Allow-Origin set to *
ProxyContract ==
    /\ fetched # <<>> => (fetched = <<Target>> /\ up = <<>>)
    /\ (req # <<>> /\ ~IsProxy(req[1])) => fetched = <<>>
    /\ (res # <<>> /\ ~IsProxy(res[1])) => fetched = <<>>
    /\ (req # <<>> /\ IsProxy(req[1])) =>
          IF req[1].url \in {Null, ""} THEN wpc = "idle" /\ fetched = <<>>
          ELSE wpc = "proxy" <=> fetched # <<>>
    /\ (res # <<>> /\ IsProxy(res[1])) =>
          IF res[1].url \in {Null, ""}
          THEN res[1].status = 400 /\ fetched = <<>>
          ELSE /\ fetched = <<Target>>
               /\ \/ /\ apiStatus = 0
                     /\ res[1].status = 500
                     /\ res[1].error # <<>> /\ Head(res[1].error) = "Proxy Error: "
                  \/ /\ apiStatus # 0
                     /\ res[1].status = apiStatus
                     /\ res[1].acao = "*"

\* C30 witness: the target's 404 is relayed
Relayed404 == res # <<>> /\ IsProxy(res[1]) /\ res[1].status = 404 /\ res[1].acao = "*" /\ fetched = <<Target>>

\* C24: a history record is written at most once per generate call, and only
\* after the response stream was read to its end with a non-empty extracted
\* URL: none on 401, on a non-success response, on a read failure or when no
\* URL was found
RecordOnlyAfterResult ==
    LET mine == {k \in 1..Len(db) : db[k].id = nGen} IN
    /\ Cardinality(mine) <= 1
    /\ Len(db) <= nGen
    /\ mine # {} =>
          /\ reader /\ done /\ body = <<>> /\ finalUrl # <<>>
          /\ pc \in {"gallery", "idle"}
          /\ \A k \in mine : db[k].url = ProxyUrl(finalUrl)
    /\ (nGen > 0 /\ (~reader \/ ~done \/ finalUrl = <<>>)) => mine = {}

\* C24 witness: the call returned with its one record, no error shown
OneRecordWritten == Ended /\ done /\ Len(db) = 1 /\ db[1].id = nGen /\ ~errShown /\ finalUrl # <<>>

\* the URL the content fragment of a line matches, <<>> when the line is no
\* valid frame, has no content or its content matches nothing
FragmentUrl(line) ==
    IF IsValid(line) /\ ParseDelta(PayloadOf(line)).content # <<>>
    THEN LET c == ParseDelta(PayloadOf(line)).content IN
         IF SrcMatch(c) # <<>> THEN SrcMatch(c)
         ELSE IF StartsWithHttp(c) THEN c ELSE <<>>
    ELSE <<>>

\* the URL of the last line that matches one, <<>> when none does
LastMatch(ls) ==
    LET hits == SelectSeq(ls, LAMBDA l : FragmentUrl(l) # <<>>) IN
    IF hits = <<>> THEN <<>> ELSE FragmentUrl(hits[Len(hits)])

\* C25: once a content fragment has set the extracted URL, no later frame
\* empties it: the URL is that of the last fragment that matches one, and
\* fragments without a match, progress-only, malformed, non-data and sentinel
\* frames leave it as it is
UrlNeverEmptied ==
    /\ [](reader => finalUrl = LastMatch(handed))
    /\ [][(reader /\ nGen' = nGen /\ finalUrl # <<>>) =>
            /\ finalUrl' # <<>>
            /\ LastMatch(SubSeq(handed', Len(handed) + 1, Len(handed'))) = <<>> => finalUrl' = finalUrl]_vars

\* C25 witness: a URL was found, and frames without one came after it
UrlKeptAfterLaterFrames ==
    /\ done /\ finalUrl # <<>> /\ Len(handed) >= 2
    /\ FragmentUrl(handed[1]) = finalUrl
    /\ FragmentUrl(handed[2]) = <<>> /\ IsValid(handed[2]) /\ ParseDelta(PayloadOf(handed[2])).content # <<>>

NoRequestWithoutNewCode ==
    [][/\ (pc = "fetch" /\ res # <<>> /\ res[1].to = "page" /\ res[1].status = 401 /\ res' = <<>>) =>
             (localCode' = "" /\ pwdModal' /\ req' = <<>> /\ pc' = "idle")
       /\ nGen' # nGen =>
             (req' # <<>> /\ req'[1].from = "page" /\ req'[1].header = localCode' /\ localCode' # "")
       /\ (localCode = "" /\ localCode' = "") => (nGen' = nGen /\ (req = <<>> => req' = <<>>))
       /\ (localCode = "" /\ pc = "idle" /\ pc' = "idle" /\ localCode' = "") => pwdModal' = pwdModal]_vars

\* C26 witness: the stored code was rejected, another one was submitted and is sent
SecondCallWithNewCode == nGen = 2 /\ localCode = "good" /\ wpc = "upstream" /\ req[1].header = "good"

\* C27: after setMode or clearFiles has run, state.files holds no file that
\* was selected before that call, also when a handleFileUpload call for such
\* files was awaiting a conversion at that moment
NoStaleFiles == \A i \in 1..Len(files) : files[i].sel > picked.stale

\* the numbers of the calls that are in flight, the newest first
RECURSIVE InFlightIds(_)
InFlightIds(n) ==
    IF n = 0 THEN <<>>
    ELSE (IF calls[n].pc # "done" THEN <<n>> ELSE <<>>) \o InFlightIds(n - 1)

\* C28: in the non-streaming variant every doGenerate call that added an
\* entry to pendingRequests removes that entry on every way out (success,
\* 401, non-success response, thrown error), so pendingRequests is empty
\* whenever no call is in flight; a call rejected for missing input adds none
PendingIsInFlight ==
    /\ pendingRequests = InFlightIds(Len(calls))
    /\ ~InFlight => pendingRequests = <<>>

\* C28 witness: a call was answered 401 and its entry is gone, and a second call is in flight
SecondPendingAfter401 ==
    /\ Len(calls) = 2 /\ calls[1].pc = "done" /\ calls[1].res.status = 401
    /\ pendingRequests = <<2>>

\* C29: in the non-streaming variant, when the upstream answers with a
\* non-success status and a JSON body with error.message, the error returned
\* to the caller is that message; only when the body is not such JSON is it
\* the API Error text with the status and the body
UpstreamMessageReturned ==
    \A i \in 1..Len(calls) :
        (calls[i].upStatus \notin {0, 200} /\ calls[i].res.status # 0) =>
            calls[i].res.error = IF calls[i].upBody = BodyJsonMessage
                                 THEN <<UpstreamMessage>>
                                 ELSE ApiError(calls[i].upStatus, calls[i].upBody)
====
